---------------------------- MODULE Spec2Model ----------------------------
(***************************************************************************)
(* A model of the SDR frequency scanner (z+o_scaniQ.py): the scan_loop     *)
(* thread, the idle foreground loop, the capture drain, the pattern        *)
(* demodulator and the two serialisations of a detection record; and of   *)
(* the serial monitor (Scripts/SerialMonitor.py): the wait for the device, *)
(* the relay of serial lines to ZMQ and multicast, and the reconnection.   *)
(*                                                                         *)
(* Conventions                                                             *)
(*  - a complex sample is a pair <<re, im>> of integers;                   *)
(*  - the acquisition port delivers a ramp: the n-th sample it delivers    *)
(*    after the probe read is <<n, 0>> (the probe block is numbered from 1 *)
(*    too), so that a gap or an overlap in a capture is visible in its     *)
(*    contents;                                                            *)
(*  - a power score is an integer number of milli-dB (1/1000 dB); the      *)
(*    logarithm of line 60 is not computed, the score comes with the block *)
(*    the port returns;                                                    *)
(*  - a timestamp is the value of a clock that counts seconds.             *)
(***************************************************************************)
EXTENDS Integers, Sequences, FiniteSets, TLC

VARIABLES
    mainpc,        \* foreground thread: "start" | "idle"
    exit,          \* "none" while the process lives, else how it ended
    pc,            \* scan_loop thread position
    err,           \* the exception that ended scan_loop, or "none"
    fi,            \* index of freq in the frequency plan (1-based)
    tuned,         \* frequency the device is tuned to (0: never tuned)
    streamActive,  \* stream activation status of the device
    buff,          \* the 1024-sample scratch block
    sr_ret,        \* sr.ret of the last readStream
    power_db,      \* <<power_db>> of the last scored probe, <<>> while unbound
    now,           \* <<now>>, the timestamp taken at trigger time, <<>> while unbound
    recorded,      \* the capture buffer
    idx,           \* the fill cursor
    pattern_found, \* result of detect_pattern on the last capture
    files,         \* recording files written, in order
    published,     \* payloads sent on the PUB socket, in order
    cavlog,        \* lines appended to cav.log, in order
    clock,         \* wall clock, seconds
    rxn,           \* samples the port has delivered since the probe read
    probeSeq,      \* history: tuned frequency of every probe read
    captureReads,  \* history: number of drain reads (saturating)
    hot,           \* history: plan indices whose probe block was above threshold
    chunks,        \* history: concatenation of the non-empty drain chunks
    input,         \* argument of the pure function under check ("none": none)
    output         \* <<result>> once it is computed, <<>> before

(* The serial monitor (Scripts/SerialMonitor.py), a separate program. *)
VARIABLES
    mpc,              \* position in main(): "notrun" when the program is not run
    device_timeout,   \* args.device_timeout
    argZmq,           \* args.zmq
    argMulticast,     \* args.multicast
    devPresent,       \* os.path.exists(args.device)
    elapsed,          \* time.time() - start_time of the wait_for_device under way (0: none)
    ser,              \* number of the serial handle bound to ser (0: unbound)
    serOpen,          \* ser.is_open
    zmq_socket,       \* "None" | "open" | "closed"
    multicast_socket, \* "None" | "open" | "closed"
    message,          \* <<message>> of the line being relayed, <<>> while unbound
    zmqOut,           \* messages the ZMQ publisher has sent, in order
    mcOut,            \* datagrams the multicast socket has sent, in order
    ret,              \* <<code>> once main() has returned, <<>> before
    lines,            \* history: every non-empty decoded line, with its handle
    mcErrs,           \* history: indices in lines whose multicast send raised
    failed            \* history: handles on which readline raised

scanVars == <<pc, err, fi, tuned, streamActive, buff, sr_ret, power_db, now,
              recorded, idx, pattern_found, files, published, cavlog, rxn,
              probeSeq, captureReads, hot, chunks>>
monVars == <<mpc, device_timeout, argZmq, argMulticast, devPresent, elapsed,
             ser, serOpen, zmq_socket, multicast_socket, message, zmqOut,
             mcOut, ret, lines, mcErrs, failed>>
vars == <<mainpc, exit, clock, scanVars, input, output, monVars>>

---------------------------------------------------------------------------
(* Bounds of the model. *)

\* frequencies of FREQ_LIST that a sweep of the model visits (20 in the source)
NumFreq == 2
\* SAMPLE_RATE, scaled (2_500_000 in the source)
SAMPLE_RATE == 1
\* length of the scratch block, scaled (1024 in the source)
BuffLen == 3
\* the clock stops counting here
MaxClock == 2
\* the history counter captureReads stops counting here
MaxCount == 2

(* Program constants. *)
RECORD_SEC == 5
THRESHOLD_DB == -45
\* 0xF17C1599, as its eight hexadecimal digits (the value exceeds 2^31)
PATTERN_HEX == <<15, 1, 7, 12, 1, 5, 9, 9>>
FreqStart == 870000000
FreqStop == 928000001
FreqStep == 3000000
DemodWindow == 4096
STATION_LAT == "50.4501"
STATION_LON == "30.5234"

Min(a, b) == IF a < b THEN a ELSE b

\* FREQ_LIST = list(range(870_000_000, 928_000_001, 3_000_000))
FREQ_LIST ==
    [i \in 1..((FreqStop - FreqStart + FreqStep - 1) \div FreqStep)
        |-> FreqStart + (i - 1) * FreqStep]

\* the frequencies a sweep of the model visits: a prefix of FREQ_LIST
Plan == SubSeq(FREQ_LIST, 1, Min(NumFreq, Len(FREQ_LIST)))

\* samples_total = int(RECORD_SEC * SAMPLE_RATE)
samples_total == RECORD_SEC * SAMPLE_RATE

ThresholdMilli == THRESHOLD_DB * 1000

---------------------------------------------------------------------------
(* Pattern demodulator. *)

\* PATTERN_HEX.to_bytes(4, 'big'): the four bytes, most significant first
PatternBytes == [k \in 1..4 |-> 16 * PATTERN_HEX[2 * k - 1] + PATTERN_HEX[2 * k]]

\* a faulty variant: the byte unpacked least significant bit first
UnpackByteLittle(b) == [j \in 1..8 |-> (b \div (2 ^ (j - 1))) % 2]

\* np.unpackbits of one uint8: eight bits, most significant first
UnpackByte(b) == [j \in 1..8 |-> (b \div (2 ^ (8 - j))) % 2]

\* np.unpackbits over the byte array: the bytes' bits, concatenated
UnpackBits(bytes) ==
    [k \in 1..(8 * Len(bytes)) |-> UnpackByte(bytes[((k - 1) \div 8) + 1])[((k - 1) % 8) + 1]]

PATTERN_BITS == UnpackBits(PatternBytes)

\* samples[1:] * np.conj(samples[:-1]), element k: s1 = samples[k+1], s0 = samples[k]
ConjProd(s1, s0) ==
    <<s1[1] * s0[1] + s1[2] * s0[2], s1[2] * s0[1] - s1[1] * s0[2]>>

\* np.angle(z) > 0 for a product z with integer parts.  The angle is
\* atan2(im, re): positive when im > 0, zero when im = 0 and re > 0.  (A
\* difference of exactly half a turn, im = 0 and re < 0, depends on the sign
\* of the floating-point zero; the inputs of this model never produce it.)
AnglePositive(z) == z[2] > 0

\* bits = (angle_diff > 0).astype(np.uint8): length N-1 (empty for N <= 1)
DemodBits(samples) ==
    [k \in 1..(IF Len(samples) = 0 THEN 0 ELSE Len(samples) - 1)
        |-> IF AnglePositive(ConjProd(samples[k + 1], samples[k])) THEN 1 ELSE 0]

\* ''.join(map(str, bits)): one character per bit
BitsStr(bits) == [k \in 1..Len(bits) |-> IF bits[k] = 1 THEN "1" ELSE "0"]

\* Python's  needle in haystack  on strings
StrIn(needle, hay) ==
    \E off \in 0..(Len(hay) - Len(needle)) :
        \A j \in 1..Len(needle) : hay[off + j] = needle[j]

detect_pattern(samples) == StrIn(BitsStr(PATTERN_BITS), BitsStr(DemodBits(samples)))

\* recorded[:n]
Take(s, n) == SubSeq(s, 1, Min(n, Len(s)))

---------------------------------------------------------------------------
(* The two serialisations of a detection record. *)

\* x / m rounded to an integer, ties to even (round(), and the rounding of
\* the format specifications .1f and .2f)
RoundHalfEven(x, m) ==
    LET q == x \div m
        r == x % m
    IN  IF 2 * r < m THEN q
        ELSE IF 2 * r > m THEN q + 1
        ELSE IF q % 2 = 0 THEN q ELSE q + 1

Abs(x) == IF x < 0 THEN -x ELSE x

\* round(power_db, 2), in 1/100 dB
Round2(p) == RoundHalfEven(p, 10)

\* a faulty variant: the power with one decimal
FormatPower1(p) ==
    LET c == 10 * RoundHalfEven(p, 100)
    IN  [neg |-> p < 0, whole |-> Abs(c) \div 100, frac |-> Abs(c) % 100]

\* f"{power_db:.2f}": sign, integer part, two decimals
FormatPower(p) ==
    LET c == RoundHalfEven(p, 10)
    IN  [neg |-> p < 0, whole |-> Abs(c) \div 100, frac |-> Abs(c) % 100]

\* f"{freq/1e6:.1f}": integer part and one decimal of the frequency in MHz
FormatMHz(f) ==
    LET t == RoundHalfEven(f, 100000)
    IN  [whole |-> t \div 10, frac |-> t % 10]

\* str(pattern_found) as the f-string renders it
PyBoolStr(b) == IF b THEN "True" ELSE "False"

\* a bool as json.dumps renders it
JsonBool(b) == IF b THEN "true" ELSE "false"

\* the message send_json puts on the wire for the payload of lines 81-89
Payload(f, p, stamp, pat) ==
    [type |-> "signal_detected", freq |-> f, rssi |-> Round2(p),
     timestamp |-> stamp, pattern |-> JsonBool(pat),
     lat |-> STATION_LAT, lon |-> STATION_LON]

\* log_line of line 93
LogLine(f, p, stamp, pat) ==
    [timestamp |-> stamp, mhz |-> FormatMHz(f), db |-> FormatPower(p),
     pattern |-> PyBoolStr(pat), lat |-> STATION_LAT, lon |-> STATION_LON]

\* fname of line 63: int(freq/1e6) and the timestamp
FileName(f, stamp) == [mhz |-> f \div 1000000, stamp |-> stamp]

---------------------------------------------------------------------------
(* The acquisition port and the capture buffer. *)

Zeros(n) == [k \in 1..n |-> <<0, 0>>]

\* what readStream may return: an error code, a timeout, or 1..len(buff) samples
ReadCounts == {-1, 0} \cup (1..BuffLen)

\* the scratch block after a read of n samples: the first n are the next
\* samples of the ramp, the rest is left as it was
ReadInto(b, n) ==
    [k \in 1..Len(b) |-> IF k <= n THEN <<rxn + k, 0>> ELSE b[k]]

\* a faulty variant: dst[lo:lo+n] = src copied without the shape check: what fits is stored
SliceAssignClip(dst, lo, n, src) ==
    [ok |-> TRUE,
     val |-> [k \in 1..Len(dst) |->
                IF k > lo /\ k <= lo + n /\ k - lo <= Len(src) THEN src[k - lo] ELSE dst[k]]]

\* numpy's dst[lo:lo+n] = src (lo 0-based): the slice is clipped to the
\* array, and src must have the slice's length (or length 1, which is
\* broadcast); otherwise ValueError and dst is unchanged
SliceAssign(dst, lo, n, src) ==
    LET from == Min(lo, Len(dst))
        to == Min(lo + n, Len(dst))
        t == IF to > from THEN to - from ELSE 0
    IN  IF Len(src) = t
        THEN [ok |-> TRUE,
              val |-> [k \in 1..Len(dst) |->
                         IF k > from /\ k <= to THEN src[k - from] ELSE dst[k]]]
        ELSE IF Len(src) = 1
        THEN [ok |-> TRUE,
              val |-> [k \in 1..Len(dst) |->
                         IF k > from /\ k <= to THEN src[1] ELSE dst[k]]]
        ELSE [ok |-> FALSE, val |-> dst]

\* the scores the energy detector gives the probe blocks of the model, in
\* milli-dB: -50 dB, exactly the threshold, -30 dB
ProbePowers == {ThresholdMilli - 5000, ThresholdMilli, ThresholdMilli + 15000}

\* a faulty variant: the trigger test with >= for >
TriggeredGeq(p) == p >= ThresholdMilli

\* power_db > THRESHOLD_DB
Triggered(p) == p > ThresholdMilli

\* freq, the loop variable (Plan is a prefix of FREQ_LIST)
freq == FREQ_LIST[fi]

---------------------------------------------------------------------------
(* The process: the foreground thread and the scan_loop thread. *)

Alive == exit = "none"

ScanInit ==
    /\ pc = "notstarted" /\ err = "none" /\ fi = 0 /\ tuned = 0
    /\ streamActive = FALSE /\ buff = <<>> /\ sr_ret = 0
    /\ power_db = <<>> /\ now = <<>> /\ recorded = <<>> /\ idx = 0
    /\ pattern_found = FALSE
    /\ files = <<>> /\ published = <<>> /\ cavlog = <<>>
    /\ rxn = 0 /\ probeSeq = <<>> /\ captureReads = 0 /\ hot = {}
    /\ chunks = <<>>

\* the serial monitor is not run
MonIdle ==
    /\ mpc = "notrun" /\ device_timeout = 0
    /\ argZmq = FALSE /\ argMulticast = FALSE
    /\ devPresent = FALSE /\ elapsed = 0
    /\ ser = 0 /\ serOpen = FALSE
    /\ zmq_socket = "None" /\ multicast_socket = "None"
    /\ message = <<>> /\ zmqOut = <<>> /\ mcOut = <<>> /\ ret = <<>>
    /\ lines = <<>> /\ mcErrs = {} /\ failed = {}

Init ==
    /\ mainpc = "start" /\ exit = "none" /\ clock = 0
    /\ ScanInit
    /\ input = "none" /\ output = <<>>
    /\ MonIdle

\* an uncaught exception ends the thread that raised it, and nothing else
Raise(e) == /\ err' = e /\ pc' = "dead"

\* threading.Thread(target=scan_loop, daemon=True).start()
StartThread ==
    /\ Alive /\ mainpc = "start" /\ pc = "notstarted"
    /\ mainpc' = "idle" /\ pc' = "open"
    /\ UNCHANGED <<exit, clock, err, fi, tuned, streamActive, buff, sr_ret,
                   power_db, now, recorded, idx, pattern_found, files,
                   published, cavlog, rxn, probeSeq, captureReads, hot,
                   chunks, input, output, monVars>>

\* while True: the foreground enters time.sleep(1)
MainLoop ==
    /\ Alive /\ mainpc = "idle"
    /\ mainpc' = "sleeping"
    /\ UNCHANGED <<exit, clock, scanVars, input, output, monVars>>

\* time.sleep(1) returns: a second has passed
MainWake ==
    /\ Alive /\ mainpc = "sleeping"
    /\ mainpc' = "idle"
    /\ clock' = Min(clock + 1, MaxClock)
    /\ UNCHANGED <<exit, scanVars, input, output, monVars>>

\* an external interrupt: KeyboardInterrupt in the foreground ends the
\* process, and the daemon thread with it, wherever it is
Interrupt ==
    /\ Alive /\ mainpc # "start"
    /\ exit' = "interrupt"
    /\ UNCHANGED <<mainpc, clock, scanVars, input, output, monVars>>

\* SoapySDR.Device(...), setSampleRate, setGain, setupStream: any may raise
OpenDevice ==
    /\ Alive /\ pc = "open"
    /\ \E ok \in BOOLEAN :
        IF ok THEN /\ pc' = "tune" /\ fi' = 1 /\ err' = err
              ELSE /\ Raise("DeviceError") /\ fi' = fi
    /\ UNCHANGED <<mainpc, exit, clock, tuned, streamActive, buff, sr_ret,
                   power_db, now, recorded, idx, pattern_found, files,
                   published, cavlog, rxn, probeSeq, captureReads, hot,
                   chunks, input, output, monVars>>

\* sdr.setFrequency(SOAPY_SDR_RX, 0, freq)
Tune ==
    /\ Alive /\ pc = "tune"
    /\ tuned' = freq
    /\ pc' = "activate"
    /\ UNCHANGED <<mainpc, exit, clock, err, fi, streamActive, buff, sr_ret,
                   power_db, now, recorded, idx, pattern_found, files,
                   published, cavlog, rxn, probeSeq, captureReads, hot,
                   chunks, input, output, monVars>>

\* sdr.activateStream(stream)
Activate ==
    /\ Alive /\ pc = "activate"
    /\ streamActive' = TRUE
    /\ rxn' = 0
    /\ pc' = "probe"
    /\ UNCHANGED <<mainpc, exit, clock, err, fi, tuned, buff, sr_ret,
                   power_db, now, recorded, idx, pattern_found, files,
                   published, cavlog, probeSeq, captureReads, hot, chunks,
                   input, output, monVars>>

\* a faulty variant: a probe read of zero samples is scored as well
ValidReadZero(n) == n >= 0

\* if sr.ret > 0 (line 59)
ValidRead(n) == n > 0

\* lines 55-65: a fresh scratch block, one probe read, the score, the trigger
Probe ==
    /\ Alive /\ pc = "probe"
    /\ \E n \in ReadCounts, p \in ProbePowers :
        /\ buff' = ReadInto(Zeros(BuffLen), n)
        /\ sr_ret' = n
        /\ rxn' = 0
        /\ probeSeq' = Append(probeSeq, tuned)
        /\ IF ValidRead(n)
           THEN /\ power_db' = <<p>>
                /\ hot' = IF p > ThresholdMilli THEN hot \cup {fi} ELSE hot
                /\ IF Triggered(p)
                   THEN /\ now' = <<clock>>
                        /\ recorded' = Zeros(samples_total)
                        /\ idx' = 0
                        /\ chunks' = <<>>
                        /\ pc' = "drain"
                   ELSE /\ pc' = "deactivate"
                        /\ UNCHANGED <<now, recorded, idx, chunks>>
           ELSE /\ p = ThresholdMilli
                /\ pc' = "deactivate"
                /\ UNCHANGED <<power_db, hot, now, recorded, idx, chunks>>
    /\ UNCHANGED <<mainpc, exit, clock, err, fi, tuned, streamActive,
                   pattern_found, files, published, cavlog, captureReads,
                   input, output, monVars>>

\* a faulty variant: the drain stops when less than a block is missing
DrainStopsShort(i) == i + BuffLen <= samples_total

\* while idx < samples_total (line 68)
DrainContinues(i) == i < samples_total

\* lines 68-72: one pass of the drain loop
Drain ==
    /\ Alive /\ pc = "drain" /\ DrainContinues(idx)
    /\ \E n \in ReadCounts :
        /\ buff' = ReadInto(buff, n)
        /\ sr_ret' = n
        /\ rxn' = IF n > 0 THEN rxn + n ELSE rxn
        /\ captureReads' = Min(captureReads + 1, MaxCount)
        /\ IF n > 0
           THEN LET chunk == Take(buff', n)
                    r == SliceAssign(recorded, idx, n, chunk)
                IN  /\ chunks' = chunks \o chunk
                    /\ IF r.ok
                       THEN /\ recorded' = r.val
                            /\ idx' = idx + n
                            /\ pc' = IF DrainContinues(idx + n) THEN "drain" ELSE "tofile"
                            /\ err' = err
                       ELSE /\ Raise("ValueError")
                            /\ UNCHANGED <<recorded, idx>>
           ELSE UNCHANGED <<chunks, recorded, idx, pc, err>>
    /\ UNCHANGED <<mainpc, exit, clock, fi, tuned, streamActive, power_db,
                   now, pattern_found, files, published, cavlog, probeSeq,
                   hot, input, output, monVars>>

\* recorded.tofile(fname)
ToFile ==
    /\ Alive /\ pc = "tofile"
    /\ \E ok \in BOOLEAN :
        IF ok THEN /\ files' = Append(files, [name |-> FileName(freq, now[1]), data |-> recorded])
                   /\ pc' = "demod" /\ err' = err
              ELSE /\ Raise("FileError") /\ files' = files
    /\ UNCHANGED <<mainpc, exit, clock, fi, tuned, streamActive, buff, sr_ret,
                   power_db, now, recorded, idx, pattern_found, published,
                   cavlog, rxn, probeSeq, captureReads, hot, chunks, input,
                   output, monVars>>

\* pattern_found = detect_pattern(recorded[:4096])
Demod ==
    /\ Alive /\ pc = "demod"
    /\ pattern_found' = detect_pattern(Take(recorded, DemodWindow))
    /\ pc' = "send"
    /\ UNCHANGED <<mainpc, exit, clock, err, fi, tuned, streamActive, buff,
                   sr_ret, power_db, now, recorded, idx, files, published,
                   cavlog, rxn, probeSeq, captureReads, hot, chunks, input,
                   output, monVars>>

\* a faulty variant: the step after a successful send skips the log append
AfterSendSkipLog == "deactivate"

\* after sock.send_json(payload) comes the append to cav.log
AfterSend == "logappend"

\* a faulty variant: the payload is stamped with the time of the publish
SendStampedLate ==
    /\ Alive /\ pc = "send"
    /\ \E ok \in BOOLEAN :
        IF ok THEN /\ published' = Append(published, Payload(freq, power_db[1], clock, pattern_found))
                   /\ pc' = AfterSend /\ err' = err
              ELSE /\ Raise("SendError") /\ published' = published
    /\ UNCHANGED <<mainpc, exit, clock, fi, tuned, streamActive, buff, sr_ret,
                   power_db, now, recorded, idx, pattern_found, files, cavlog,
                   rxn, probeSeq, captureReads, hot, chunks, input, output, monVars>>

\* sock.send_json(payload)
Send ==
    /\ Alive /\ pc = "send"
    /\ \E ok \in BOOLEAN :
        IF ok THEN /\ published' = Append(published, Payload(freq, power_db[1], now[1], pattern_found))
                   /\ pc' = AfterSend /\ err' = err
              ELSE /\ Raise("SendError") /\ published' = published
    /\ UNCHANGED <<mainpc, exit, clock, fi, tuned, streamActive, buff, sr_ret,
                   power_db, now, recorded, idx, pattern_found, files, cavlog,
                   rxn, probeSeq, captureReads, hot, chunks, input, output, monVars>>

\* with open("cav.log", "a") as logf: logf.write(log_line)
LogAppend ==
    /\ Alive /\ pc = "logappend"
    /\ \E ok \in BOOLEAN :
        IF ok THEN /\ cavlog' = Append(cavlog, LogLine(freq, power_db[1], now[1], pattern_found))
                   /\ pc' = "deactivate" /\ err' = err
              ELSE /\ Raise("LogError") /\ cavlog' = cavlog
    /\ UNCHANGED <<mainpc, exit, clock, fi, tuned, streamActive, buff, sr_ret,
                   power_db, now, recorded, idx, pattern_found, files,
                   published, rxn, probeSeq, captureReads, hot, chunks, input,
                   output, monVars>>

\* a faulty variant: the iteration ends without deactivating the stream
DeactivateSkipped ==
    /\ Alive /\ pc = "deactivate"
    /\ pc' = "sleep"
    /\ UNCHANGED <<mainpc, exit, clock, err, fi, tuned, streamActive, buff,
                   sr_ret, power_db, now, recorded, idx, pattern_found, files,
                   published, cavlog, rxn, probeSeq, captureReads, hot,
                   chunks, input, output, monVars>>

\* sdr.deactivateStream(stream)
Deactivate ==
    /\ Alive /\ pc = "deactivate"
    /\ streamActive' = FALSE
    /\ pc' = "sleep"
    /\ UNCHANGED <<mainpc, exit, clock, err, fi, tuned, buff, sr_ret,
                   power_db, now, recorded, idx, pattern_found, files,
                   published, cavlog, rxn, probeSeq, captureReads, hot,
                   chunks, input, output, monVars>>

\* a faulty variant: the for loop restarted at the first frequency after the last
LoopNextWrap(i) ==
    IF i < Len(Plan) THEN [pc |-> "tune", fi |-> i + 1]
                     ELSE [pc |-> "tune", fi |-> 1]

\* for freq in FREQ_LIST: the next frequency, or the end of the loop
\* (log("Scan complete."), and scan_loop returns)
LoopNext(i) ==
    IF i < Len(Plan) THEN [pc |-> "tune", fi |-> i + 1]
                     ELSE [pc |-> "complete", fi |-> i]

\* time.sleep(1), then the loop's next iteration
Sleep ==
    /\ Alive /\ pc = "sleep"
    /\ clock' = Min(clock + 1, MaxClock)
    /\ pc' = LoopNext(fi).pc
    /\ fi' = LoopNext(fi).fi
    /\ UNCHANGED <<mainpc, exit, err, tuned, streamActive, buff, sr_ret,
                   power_db, now, recorded, idx, pattern_found, files,
                   published, cavlog, rxn, probeSeq, captureReads, hot,
                   chunks, input, output, monVars>>

ScanStep ==
    \/ OpenDevice \/ Tune \/ Activate \/ Probe \/ Drain \/ ToFile \/ Demod
    \/ Send \/ LogAppend \/ Deactivate \/ Sleep

MainStep == StartThread \/ MainLoop \/ MainWake

Next == MainStep \/ ScanStep \/ Interrupt

Spec == Init /\ [][Next]_vars

\* both threads are scheduled: neither waits forever while it can step
FairSpec == Spec /\ WF_vars(ScanStep) /\ WF_vars(MainStep)

---------------------------------------------------------------------------
(* Claims about the scanner. *)

IOErrors == {"FileError", "SendError", "LogError"}

\* the plan index of the k-th published record
PubIndex(k) == CHOOSE i \in 1..Len(Plan) : Plan[i] = published[k].freq

\* the frequency a log line shows, in Hz
LineHz(l) == l.mhz.whole * 1000000 + l.mhz.frac * 100000

\* C1: whatever counts the drain reads return (non-positive, or 1 up to the
\* block size), the drain ends without error, with the cursor at
\* samples_total and the buffer equal to the concatenation of the non-empty
\* chunks in read order.
C1_DrainFillsExactly ==
    /\ err # "ValueError"
    /\ pc = "tofile" => (idx = samples_total /\ recorded = chunks)

\* C2: a drain never goes on forever, also when the port keeps returning
\* zero or negative counts: the scan thread eventually leaves the drain loop
\* (unless the process is interrupted).
C2_DrainEnds == (Alive /\ pc = "drain") ~> (pc # "drain" \/ ~Alive)

\* C3: while no probe block has scored above THRESHOLD_DB (a score equal to
\* the threshold included), there is one probe read per frequency visited, in
\* plan order, N of them when the sweep is complete, and no drain read, no
\* file, no published message and no log line.
C3_NoTriggerNoCapture ==
    hot = {} =>
        /\ captureReads = 0 /\ files = <<>> /\ published = <<>> /\ cavlog = <<>>
        /\ Len(probeSeq) <= Len(Plan)
        /\ \A k \in 1..Len(probeSeq) : probeSeq[k] = Plan[k]
        /\ pc = "complete" => Len(probeSeq) = Len(Plan)

C3_Witness ==
    /\ pc = "complete" /\ hot = {} /\ power_db = <<ThresholdMilli>>
    /\ Len(probeSeq) = Len(Plan)

\* C4: when scan_loop has ended (other than by a device, file, send or log
\* failure), every frequency whose probe block had a positive count and a
\* score above the threshold has exactly one published record and one log
\* line, and every other frequency has none.
C4_OneRecordPerDetection ==
    (pc \in {"complete", "dead"} /\ err \notin IOErrors \cup {"DeviceError"}) =>
        \A i \in 1..Len(Plan) :
            /\ Cardinality({k \in DOMAIN published : published[k].freq = Plan[i]})
                 = (IF i \in hot THEN 1 ELSE 0)
            /\ Cardinality({k \in DOMAIN cavlog : LineHz(cavlog[k]) = Plan[i]})
                 = (IF i \in hot THEN 1 ELSE 0)

C6_IOFailureIsolated == err \in IOErrors => pc # "dead"

\* C7: when opening or configuring the device fails, the process ends, with
\* a non-zero exit indicator.
C7_OpenFailureExits == (err = "DeviceError") ~> (exit # "none")

C8_State ==
    /\ \A a, b \in DOMAIN published : a < b => PubIndex(a) < PubIndex(b)
    /\ Len(cavlog) <= Len(published) /\ Len(published) <= Len(cavlog) + 1
    /\ pc = "tune" =>
        /\ Len(cavlog) = Len(published)
        /\ \A k \in DOMAIN published : PubIndex(k) < fi

\* C8: records are published in increasing plan index, one at a time: the
\* publish and the log append of a detection are both done before the next
\* frequency is tuned; and no step of the foreground thread publishes, logs,
\* writes a file or touches the device.
C8_OrderedSingleProducer ==
    [][/\ C8_State'
       /\ mainpc' # mainpc =>
            UNCHANGED <<published, cavlog, files, tuned, streamActive, buff,
                        sr_ret, rxn>>]_vars

C8_Witness == Len(published) = 2 /\ Len(cavlog) = 2 /\ pc = "complete"

---------------------------------------------------------------------------
(* detect_pattern on synthetic bitstreams. *)

\* longest padding put before and after the encoded pattern
PadLen == 2

\* the bit sequence of the 32-bit value, most significant bit first, read
\* off its hexadecimal digits
BigEndianBits ==
    [j \in 1..32 |-> (PATTERN_HEX[((j - 1) \div 4) + 1] \div (2 ^ (3 - ((j - 1) % 4)))) % 2]

BitSeqs(n) == UNION {[1..k -> {0, 1}] : k \in 0..n}

\* bits with bit k flipped (k = 0: none)
FlipBit(bits, k) == [j \in 1..Len(bits) |-> IF j = k THEN 1 - bits[j] ELSE bits[j]]

\* the bitstream of an input: padding, the pattern with at most one bit
\* flipped, padding
InputBits(in) == in.pre \o FlipBit(BigEndianBits, in.flip) \o in.post

\* the unit sample of phase q quarter turns
Unit(q) == IF q = 0 THEN <<1, 0>> ELSE IF q = 1 THEN <<0, 1>>
           ELSE IF q = 2 THEN <<-1, 0>> ELSE <<0, -1>>

\* the bitstream encoded into phase differences exactly: a quarter turn
\* forward for a 1, a quarter turn back for a 0
Encode(bits) ==
    LET ph[k \in 0..Len(bits)] ==
            IF k = 0 THEN 0 ELSE (ph[k - 1] + (IF bits[k] = 1 THEN 1 ELSE 3)) % 4
    IN  [k \in 1..(Len(bits) + 1) |-> Unit(ph[k - 1])]

\* bits contains run as a contiguous run
ContainsRun(bits, run) ==
    \E off \in 0..(Len(bits) - Len(run)) : SubSeq(bits, off + 1, off + Len(run)) = run

PatternInit ==
    /\ mainpc = "start" /\ exit = "none" /\ clock = 0
    /\ ScanInit
    /\ input \in [pre : BitSeqs(PadLen), flip : 0..32, post : BitSeqs(PadLen)]
    /\ output = <<>>
    /\ MonIdle

\* detect_pattern applied to the encoded input
DetectPattern ==
    /\ output = <<>>
    /\ output' = <<detect_pattern(Encode(InputBits(input)))>>
    /\ UNCHANGED <<mainpc, exit, clock, scanVars, input, monVars>>

PatternNext == DetectPattern

PatternSpec == PatternInit /\ [][PatternNext]_vars

\* C9: on a bitstream encoded into phase differences, the bits demodulated
\* are the bits encoded, and detect_pattern returns true exactly when the
\* big-endian bit sequence of 0xF17C1599 occurs in them as a contiguous run:
\* true when the pattern is encoded exactly, false when any single bit of it
\* is flipped.
C9_ExactMatchOnly ==
    output # <<>> =>
        LET bs == InputBits(input)
        IN  /\ DemodBits(Encode(bs)) = bs
            /\ output[1] = ContainsRun(bs, BigEndianBits)
            /\ input.flip = 0 => output[1]
            /\ input.flip # 0 => ~output[1]

C9_Witness ==
    /\ output = <<FALSE>> /\ input.flip = 17
    /\ input.pre = <<>> /\ input.post = <<>>

---------------------------------------------------------------------------
(* The record of a detection in its two representations. *)

\* width, in milli-dB, of the ranges of power values tried
PowerSpan == 25

RecordPowers ==
    ((ThresholdMilli + 1)..(ThresholdMilli + PowerSpan)) \cup ((-PowerSpan)..PowerSpan)

\* a state of scan_loop just before the record of a detection is sent, at
\* the first detection of a sweep whose reads all returned one sample: any
\* frequency of FREQ_LIST, any power above the threshold, either pattern flag
\* (a capture of the source is long enough to hold the pattern)
RecordInit ==
    /\ mainpc = "idle" /\ exit = "none" /\ clock = MaxClock
    /\ pc = "send" /\ err = "none"
    /\ fi \in 1..Len(FREQ_LIST)
    /\ tuned = freq
    /\ streamActive = TRUE
    /\ rxn = samples_total
    /\ buff = [k \in 1..BuffLen |-> IF k = 1 THEN <<samples_total, 0>> ELSE <<0, 0>>]
    /\ sr_ret = 1
    /\ power_db \in {<<p>> : p \in RecordPowers}
    /\ now \in {<<t>> : t \in 0..MaxClock}
    /\ recorded = [k \in 1..samples_total |-> <<k, 0>>]
    /\ idx = samples_total
    /\ pattern_found \in BOOLEAN
    /\ files = <<[name |-> FileName(freq, now[1]), data |-> recorded]>>
    /\ published = <<>> /\ cavlog = <<>>
    /\ probeSeq = SubSeq(FREQ_LIST, 1, fi)
    /\ captureReads = Min(samples_total, MaxCount)
    /\ hot = {fi}
    /\ chunks = recorded
    /\ input = "none" /\ output = <<>>
    /\ MonIdle

RecordNext == Send \/ LogAppend

RecordSpec == RecordInit /\ [][RecordNext]_vars

\* what a subscriber reads off a published message
FromMessage(m) == [freq |-> m.freq, centi |-> m.rssi, pattern |-> (m.pattern = "true")]

\* what a reader recovers from a log line
FromLine(l) ==
    [freq |-> LineHz(l),
     centi |-> (IF l.db.neg THEN -1 ELSE 1) * (l.db.whole * 100 + l.db.frac),
     pattern |-> (l.pattern = "True")]

---------------------------------------------------------------------------
(* Claims about the protocol of one frequency. *)

\* the steps of scan_loop in the order the code takes them
PcOrder ==
    {<<"notstarted", "open">>, <<"open", "tune">>, <<"open", "dead">>,
     <<"tune", "activate">>, <<"activate", "probe">>,
     <<"probe", "drain">>, <<"probe", "deactivate">>,
     <<"drain", "drain">>, <<"drain", "tofile">>, <<"drain", "dead">>,
     <<"tofile", "demod">>, <<"tofile", "dead">>,
     <<"demod", "send">>,
     <<"send", "logappend">>, <<"send", "dead">>,
     <<"logappend", "deactivate">>, <<"logappend", "dead">>,
     <<"deactivate", "sleep">>,
     <<"sleep", "tune">>, <<"sleep", "complete">>}

\* the positions of an iteration that come before its probe read
BeforeProbe == {"tune", "activate", "probe"}

\* the positions of an iteration between activateStream and deactivateStream
StreamOn == {"probe", "drain", "tofile", "demod", "send", "logappend", "deactivate"}

C12_State ==
    /\ pc \in {"tune", "activate", "sleep", "complete"} => ~streamActive
    /\ pc \in StreamOn => (streamActive /\ tuned = freq)
    /\ pc \in BeforeProbe => Len(probeSeq) = fi - 1
    /\ pc \in (StreamOn \ {"probe"}) \cup {"sleep"} => Len(probeSeq) = fi

\* C12: at each frequency the steps come in the order tune, activate, one
\* probe read, then (if triggered) drain reads, file write, demodulation,
\* publish, log append, then deactivate, then advance.  The stream is
\* inactive when a frequency is tuned, every read is made on an active
\* stream tuned to the loop's frequency, an activation starts from an
\* inactive stream and the one deactivation that follows it comes before the
\* next frequency is tuned.
C12_Protocol ==
    [][/\ pc' # pc => <<pc, pc'>> \in PcOrder
       /\ C12_State'
       /\ (pc \in {"probe", "drain"} /\ scanVars' # scanVars) => streamActive
       /\ streamActive' # streamActive =>
            \/ pc = "activate" /\ pc' = "probe" /\ streamActive'
            \/ pc = "deactivate" /\ pc' = "sleep" /\ ~streamActive']_vars

C12_Witness ==
    /\ pc = "tune" /\ fi = 2 /\ ~streamActive
    /\ Len(published) = 1 /\ Len(cavlog) = 1 /\ Len(files) = 1

---------------------------------------------------------------------------
(* Claims about a probe read that returns nothing. *)

\* the records of the three outputs that belong to frequency f
FilesOf(f) == {k \in DOMAIN files : files[k].name = FileName(f, files[k].name.stamp)}
PublishedOf(f) == {k \in DOMAIN published : published[k].freq = f}
LinesOf(f) == {k \in DOMAIN cavlog : cavlog[k].mhz = FormatMHz(f)}

\* the current iteration's probe read returned no samples
ProbeFailed == pc \in {"deactivate", "sleep"} /\ sr_ret <= 0

C13_State ==
    ProbeFailed =>
        /\ Len(probeSeq) = fi
        /\ fi \notin hot
        /\ FilesOf(freq) = {} /\ PublishedOf(freq) = {} /\ LinesOf(freq) = {}

\* C13: a probe read that returns a non-positive count skips the frequency:
\* the power score is not computed, no capture read is made, no file, record
\* or log line is written for it, the probe is not read again, and the
\* iteration goes on to deactivate the stream and advance.
C13_FailedProbeSkips ==
    [][/\ (pc = "probe" /\ pc' # "probe" /\ sr_ret' <= 0) =>
            /\ pc' = "deactivate"
            /\ UNCHANGED <<power_db, now, recorded, idx, captureReads,
                           files, published, cavlog, hot>>
       /\ (ProbeFailed /\ pc' # pc) =>
            /\ <<pc, pc'>> \in {<<"deactivate", "sleep">>, <<"sleep", "tune">>,
                                <<"sleep", "complete">>}
            /\ UNCHANGED <<probeSeq, captureReads, files, published, cavlog>>
       /\ (ProbeFailed /\ pc = "deactivate" /\ pc' = "sleep") => ~streamActive'
       /\ C13_State']_vars

C13_Witness ==
    /\ pc = "tune" /\ fi = 2 /\ sr_ret <= 0 /\ ~streamActive
    /\ probeSeq = <<FREQ_LIST[1]>> /\ power_db = <<>> /\ captureReads = 0
    /\ files = <<>> /\ published = <<>> /\ cavlog = <<>>

---------------------------------------------------------------------------
(* Claims about the recording file. *)

\* a capture buffer in which every place holds a sample of the port's ramp
FullBuffer == [j \in 1..samples_total |-> <<j, 0>>]

\* the capture of the current frequency is under way or was cut short
CaptureOpen ==
    \/ pc \in {"drain", "tofile"}
    \/ pc = "dead" /\ err \in {"ValueError", "FileError"}

C14_State ==
    /\ \A i \in 1..Len(FREQ_LIST) :
          Cardinality(FilesOf(FREQ_LIST[i])) <= (IF i \in hot THEN 1 ELSE 0)
    /\ \A k \in DOMAIN files : files[k].data = FullBuffer
    /\ CaptureOpen =>
          FilesOf(freq) = {} /\ PublishedOf(freq) = {} /\ LinesOf(freq) = {}
    /\ pc = "drain" => idx < samples_total

\* C14: the recording file of a trigger is written at most once, by the step
\* that follows the drain, when the fill cursor is at the capacity, and it
\* holds a buffer of which every place was filled; while a capture is under
\* way, and after it was interrupted or aborted before the cursor reached
\* the capacity, there is no file, no published record and no log line for
\* its frequency.
C14_FileOnlyWhenFull ==
    [][/\ files' # files =>
            /\ pc = "tofile" /\ idx = samples_total /\ recorded = FullBuffer
            /\ Len(files') = Len(files) + 1
            /\ FilesOf(freq) = {}
       /\ C14_State']_vars

C14_Witness ==
    /\ exit = "interrupt" /\ pc = "drain" /\ fi = 2
    /\ idx > 0 /\ idx < samples_total
    /\ Len(files) = 1 /\ files[1].data = FullBuffer
    /\ FilesOf(freq) = {} /\ PublishedOf(freq) = {} /\ LinesOf(freq) = {}

C14_WitnessAborted ==
    /\ pc = "dead" /\ err = "ValueError" /\ idx > 0 /\ idx < samples_total
    /\ files = <<>> /\ published = <<>> /\ cavlog = <<>>

---------------------------------------------------------------------------
(* Claims about the timestamp of a detection. *)

C18_State ==
    /\ Len(cavlog) <= Len(published) /\ Len(published) <= Len(files)
    /\ \A k \in DOMAIN published : published[k].timestamp = files[k].name.stamp
    /\ \A k \in DOMAIN cavlog : cavlog[k].timestamp = files[k].name.stamp
    /\ pc \in {"drain", "tofile", "demod", "send", "logappend"} =>
          (now # <<>> /\ now[1] <= clock)

\* C18: the timestamp of a detection is read from the clock once, by the
\* step that finds the probe above the threshold and before the first drain
\* read; no later step changes it, and the file name, the published message
\* and the log line of the detection all carry that value, whatever the
\* clock shows when they are written.
C18_OneTimestamp ==
    [][/\ now' # now => (pc = "probe" /\ pc' = "drain" /\ now' = <<clock>>
                          /\ captureReads' = captureReads)
       /\ (pc = "probe" /\ pc' = "drain") => now' = <<clock>>
       /\ files' # files => files'[Len(files')].name.stamp = now[1]
       /\ published' # published => published'[Len(published')].timestamp = now[1]
       /\ cavlog' # cavlog => cavlog'[Len(cavlog')].timestamp = now[1]
       /\ C18_State']_vars

\* a detection triggered at time 0 whose three outputs were all written
\* after the clock had moved on
C18_Witness ==
    /\ pc = "logappend" /\ fi = 1 /\ now = <<0>> /\ clock > 0
    /\ Len(files) = 1 /\ Len(published) = 1
    /\ files[1].name.stamp = 0 /\ published[1].timestamp = 0

---------------------------------------------------------------------------
(* Claims about the stream at the end of scan_loop. *)

\* C19: whenever scan_loop has ended, by finishing the sweep or by an error
\* that aborted an iteration, the stream is inactive.
C19_InactiveAtEnd == pc \in {"complete", "dead"} => ~streamActive

---------------------------------------------------------------------------
(* The serial monitor (Scripts/SerialMonitor.py).                          *)
(*                                                                         *)
(* A byte of a serial line is one of "a", "b" (printable), "SP", "CR",     *)
(* "NL" (white space) and "XFF" (a byte that is not valid UTF-8).  Time is *)
(* counted in whole seconds; a time.sleep(1) lasts one second or more.     *)
(* The clock that stamps the messages moves on by one with every message,  *)
(* until it stops counting.                                                *)

\* values of --device-timeout the model tries: 0..MaxTimeout
MaxTimeout == 1
\* non-empty lines a run of the model relays
MaxLines == 2
\* serial handles a run of the model opens
MaxOpens == 2

\* timeout of the wait_for_device call in the reconnection handler (line 187)
RECONNECT_TIMEOUT == 30

\* the elapsed time of a wait stops counting here
ElapsedCap == RECONNECT_TIMEOUT + 2

\* seconds that pass in one time.sleep(1) and the loop around it
SleepTimes == {1, 2}

DeviceTimeouts == 0..MaxTimeout

\* timeout = args.device_timeout if args.device_timeout > 0 else None
\* (None is rendered as 0: both are false in "if timeout and ...")
EffectiveTimeout(t) == IF t > 0 THEN t ELSE 0

\* a faulty variant: the elapsed time is compared without testing timeout
TimedOutUnguarded(timeout, el) == el > timeout

\* timeout and (time.time() - start_time > timeout)
TimedOut(timeout, el) == timeout # 0 /\ el > timeout

\* one pass of the loop of wait_for_device: "True", "False" or "sleep"
wait_for_device(present, timeout, el) ==
    IF present THEN "True"
    ELSE IF TimedOut(timeout, el) THEN "False"
    ELSE "sleep"

MonAlive == mpc \notin {"notrun", "returned", "crashed"}

scanAll == <<mainpc, exit, scanVars, input, output>>

MonitorInit ==
    /\ mainpc = "start" /\ exit = "none" /\ clock = 0
    /\ ScanInit
    /\ input = "none" /\ output = <<>>
    /\ mpc = "wait"
    /\ device_timeout \in DeviceTimeouts
    /\ argZmq \in BOOLEAN /\ argMulticast \in BOOLEAN
    /\ devPresent \in BOOLEAN /\ elapsed = 0
    /\ ser = 0 /\ serOpen = FALSE
    /\ zmq_socket = "None" /\ multicast_socket = "None"
    /\ message = <<>> /\ zmqOut = <<>> /\ mcOut = <<>> /\ ret = <<>>
    /\ lines = <<>> /\ mcErrs = {} /\ failed = {}

\* the device node appears (the environment)
DevicePlug ==
    /\ MonAlive /\ ~devPresent
    /\ devPresent' = TRUE
    /\ UNCHANGED <<scanAll, clock, mpc, device_timeout, argZmq, argMulticast,
                   elapsed, ser, serOpen, zmq_socket, multicast_socket,
                   message, zmqOut, mcOut, ret, lines, mcErrs, failed>>

\* the device node disappears (the environment)
DeviceUnplug ==
    /\ MonAlive /\ devPresent
    /\ devPresent' = FALSE
    /\ UNCHANGED <<scanAll, clock, mpc, device_timeout, argZmq, argMulticast,
                   elapsed, ser, serOpen, zmq_socket, multicast_socket,
                   message, zmqOut, mcOut, ret, lines, mcErrs, failed>>

\* lines 117-121: one pass of the wait for the device at start-up
WaitStartup ==
    /\ mpc = "wait"
    /\ LET w == wait_for_device(devPresent, EffectiveTimeout(device_timeout), elapsed)
       IN  \/ /\ w = "True"
              /\ mpc' = "setup"
              /\ elapsed' = 0
              /\ UNCHANGED ret
           \/ /\ w = "False"
              /\ ret' = <<1>>
              /\ mpc' = "returned"
              /\ elapsed' = 0
           \/ /\ w = "sleep"
              /\ \E d \in SleepTimes : elapsed' = Min(elapsed + d, ElapsedCap)
              /\ UNCHANGED <<mpc, ret>>
    /\ UNCHANGED <<scanAll, clock, device_timeout, argZmq, argMulticast,
                   devPresent, ser, serOpen, zmq_socket, multicast_socket,
                   message, zmqOut, mcOut, lines, mcErrs, failed>>

\* lines 124-131: the sinks asked for are set up; bind() may raise, and the
\* exception leaves main(); setup_multicast_socket returns None on failure
SetupSinks ==
    /\ mpc = "setup"
    /\ \E zok \in BOOLEAN, mok \in BOOLEAN :
        IF argZmq /\ ~zok
        THEN /\ mpc' = "crashed"
             /\ mok
             /\ UNCHANGED <<zmq_socket, multicast_socket>>
        ELSE /\ zmq_socket' = IF argZmq THEN "open" ELSE "None"
             /\ (argZmq \/ zok)
             /\ multicast_socket' = IF argMulticast /\ mok THEN "open" ELSE "None"
             /\ (argMulticast \/ mok)
             /\ mpc' = "open"
    /\ UNCHANGED <<scanAll, clock, device_timeout, argZmq, argMulticast,
                   devPresent, elapsed, ser, serOpen, message, zmqOut, mcOut,
                   ret, lines, mcErrs, failed>>

\* lines 133-146 and 207-208: ser = serial.Serial(...); a SerialException
\* is logged and main() goes to its finally clause
OpenPort ==
    /\ mpc = "open"
    /\ \E ok \in BOOLEAN :
        IF ok THEN /\ ser' = ser + 1 /\ serOpen' = TRUE /\ mpc' = "read"
              ELSE /\ mpc' = "cleanup" /\ UNCHANGED <<ser, serOpen>>
    /\ UNCHANGED <<scanAll, clock, device_timeout, argZmq, argMulticast,
                   devPresent, elapsed, zmq_socket, multicast_socket, message,
                   zmqOut, mcOut, ret, lines, mcErrs, failed>>

Whitespace == {"SP", "CR", "NL"}

\* what ser.readline() returns: <<>> when the one-second timeout passes with
\* no byte, else the bytes read
RawLines ==
    {<<>>,
     <<"NL">>,
     <<"SP", "CR", "NL">>,
     <<"XFF", "NL">>,
     <<"a", "NL">>,
     <<"SP", "a", "XFF", "SP", "CR", "NL">>,
     <<"b", "SP", "b">>}

\* line.decode('utf-8', errors='ignore'): the invalid bytes are dropped
Decode(raw) == SelectSeq(raw, LAMBDA c : c # "XFF")

\* a faulty variant: the white space is kept
StripNothing(str) == str

\* str.strip(): leading and trailing white space removed
Strip(str) ==
    LET keep == {i \in DOMAIN str : str[i] \notin Whitespace}
    IN  IF keep = {} THEN <<>>
        ELSE SubSeq(str, CHOOSE i \in keep : \A j \in keep : i <= j,
                         CHOOSE i \in keep : \A j \in keep : i >= j)

\* message of lines 158-162
Message(stamp, data) == [type |-> "serial", timestamp |-> stamp, data |-> data]

\* lines 150-162 and 182-186: one readline; a line that is not empty after
\* decoding and stripping becomes the message to relay; a SerialException
\* is logged and, after time.sleep(5), the wait for the device starts
ReadLine ==
    /\ mpc = "read"
    /\ \/ \E raw \in RawLines :
            LET line_decoded == Strip(Decode(raw))
            IN  /\ IF raw # <<>> /\ line_decoded # <<>>
                   THEN /\ Len(lines) < MaxLines
                        /\ message' = <<Message(clock, line_decoded)>>
                        /\ clock' = Min(clock + 1, MaxClock)
                        /\ lines' = Append(lines, [data |-> line_decoded, ser |-> ser])
                        /\ mpc' = "zmqsend"
                   ELSE UNCHANGED <<message, lines, mpc, clock>>
                /\ UNCHANGED <<elapsed, failed>>
       \/ /\ ser < MaxOpens
          /\ failed' = failed \cup {ser}
          /\ elapsed' = 0
          /\ mpc' = "rewait"
          /\ UNCHANGED <<clock, message, lines>>
    /\ UNCHANGED <<scanAll, device_timeout, argZmq, argMulticast, devPresent,
                   ser, serOpen, zmq_socket, multicast_socket, zmqOut, mcOut,
                   ret, mcErrs>>

\* lines 164-166 and 211-212: zmq_socket.send_json(message); an exception
\* is caught by the outer handler, which ends the loop
SendZmq ==
    /\ mpc = "zmqsend"
    /\ IF argZmq /\ zmq_socket = "open"
       THEN \E ok \in BOOLEAN :
               IF ok THEN /\ zmqOut' = Append(zmqOut, message[1])
                          /\ mpc' = "mcsend"
                     ELSE /\ mpc' = "cleanup" /\ UNCHANGED zmqOut
       ELSE /\ mpc' = "mcsend" /\ UNCHANGED zmqOut
    /\ UNCHANGED <<scanAll, clock, device_timeout, argZmq, argMulticast,
                   devPresent, elapsed, ser, serOpen, zmq_socket,
                   multicast_socket, message, mcOut, ret, lines, mcErrs,
                   failed>>

\* a faulty variant: a failed multicast send ends the loop
AfterMulticastErrorStop == "cleanup"

\* except Exception as multicast_error: logger.error(...), and the loop goes on
AfterMulticastError == "read"

\* lines 168-178: multicast_socket.sendto(...)
SendMulticast ==
    /\ mpc = "mcsend"
    /\ IF argMulticast /\ multicast_socket = "open"
       THEN \E ok \in BOOLEAN :
               IF ok THEN /\ mcOut' = Append(mcOut, message[1])
                          /\ mpc' = "read"
                          /\ UNCHANGED mcErrs
                     ELSE /\ mcErrs' = mcErrs \cup {Len(lines)}
                          /\ mpc' = AfterMulticastError
                          /\ UNCHANGED mcOut
       ELSE /\ mpc' = "read" /\ UNCHANGED <<mcOut, mcErrs>>
    /\ UNCHANGED <<scanAll, clock, device_timeout, argZmq, argMulticast,
                   devPresent, elapsed, ser, serOpen, zmq_socket,
                   multicast_socket, message, zmqOut, ret, lines, failed>>

\* a faulty variant: the loop goes on reading after the wait has failed
AfterWaitFailedRead == "read"

\* if not wait_for_device(args.device, logger, 30): ... break
AfterWaitFailed == "cleanup"

\* lines 187-190: one pass of the wait for the device to come back
WaitReconnect ==
    /\ mpc = "rewait"
    /\ LET w == wait_for_device(devPresent, RECONNECT_TIMEOUT, elapsed)
       IN  \/ /\ w = "True"
              /\ mpc' = "reopen"
              /\ elapsed' = 0
           \/ /\ w = "False"
              /\ mpc' = AfterWaitFailed
              /\ elapsed' = 0
           \/ /\ w = "sleep"
              /\ \E d \in SleepTimes : elapsed' = Min(elapsed + d, ElapsedCap)
              /\ UNCHANGED mpc
    /\ UNCHANGED <<scanAll, clock, device_timeout, argZmq, argMulticast,
                   devPresent, ser, serOpen, zmq_socket, multicast_socket,
                   message, zmqOut, mcOut, ret, lines, mcErrs, failed>>

\* lines 192-205: ser = serial.Serial(...) again; a SerialException breaks
\* out of the loop
Reopen ==
    /\ mpc = "reopen"
    /\ \E ok \in BOOLEAN :
        IF ok THEN /\ ser' = ser + 1 /\ serOpen' = TRUE /\ mpc' = "read"
              ELSE /\ mpc' = "cleanup" /\ UNCHANGED <<ser, serOpen>>
    /\ UNCHANGED <<scanAll, clock, device_timeout, argZmq, argMulticast,
                   devPresent, elapsed, zmq_socket, multicast_socket, message,
                   zmqOut, mcOut, ret, lines, mcErrs, failed>>

\* what close() leaves of a socket variable
Closed(sock) == IF sock = "None" THEN "None" ELSE "closed"

\* lines 214-226: the finally clause, then return 0
Cleanup ==
    /\ mpc = "cleanup"
    /\ serOpen' = FALSE
    /\ zmq_socket' = Closed(zmq_socket)
    /\ multicast_socket' = Closed(multicast_socket)
    /\ ret' = <<0>>
    /\ mpc' = "returned"
    /\ UNCHANGED <<scanAll, clock, device_timeout, argZmq, argMulticast,
                   devPresent, elapsed, ser, message, zmqOut, mcOut, lines,
                   mcErrs, failed>>

MonitorNext ==
    \/ DevicePlug \/ DeviceUnplug
    \/ WaitStartup \/ SetupSinks \/ OpenPort
    \/ ReadLine \/ SendZmq \/ SendMulticast
    \/ WaitReconnect \/ Reopen \/ Cleanup

MonitorSpec == MonitorInit /\ [][MonitorNext]_vars

---------------------------------------------------------------------------
(* Claims about the serial monitor. *)

C11_WitnessTimedOut ==
    /\ mpc = "returned" /\ ret = <<1>> /\ device_timeout = MaxTimeout /\ ser = 0

\* the data fields of a sequence of messages or of lines
Data(seq) == [k \in DOMAIN seq |-> seq[k].data]

\* seq without the places whose index is in bad
Kept(seq, bad) ==
    LET tagged == [k \in DOMAIN seq |-> [i |-> k, v |-> seq[k]]]
        sel == SelectSeq(tagged, LAMBDA t : t.i \notin bad)
    IN  [k \in DOMAIN sel |-> sel[k].v]

AllButLast(seq) == SubSeq(seq, 1, Len(seq) - 1)

ZmqOn == argZmq /\ zmq_socket # "None"
MulticastOn == argMulticast /\ multicast_socket # "None"

\* the loop is between two lines: the last line read has been dealt with
BetweenLines == mpc \in {"read", "rewait", "reopen"}

\* C15 (as stated): every line that is non-empty after decoding and
\* stripping has been sent, once and in read order, to each enabled sink
\* that was set up, whenever the loop is between two lines.
C15_EveryLineOnEverySink ==
    BetweenLines =>
        /\ ZmqOn => Data(zmqOut) = Data(lines)
        /\ MulticastOn => Data(mcOut) = Data(lines)

\* C15 (amended): a message is built only for a line that is non-empty
\* after decoding and stripping; it is sent on ZMQ (if enabled and set up)
\* and then, unless that send raised, on multicast (if enabled and set up),
\* once each and never again.  The ZMQ output is the lines read, in order,
\* but for a last line whose ZMQ send raised; the multicast output is the
\* same messages in the same order, without the lines whose multicast send
\* raised and without a line whose ZMQ send raised.  A sink that is not
\* enabled or was not set up gets nothing.
C15_State ==
    /\ \A k \in DOMAIN lines :
          LET d == lines[k].data
          IN  /\ d # <<>>
              /\ \A i \in DOMAIN d : d[i] # "XFF"
              /\ d[1] \notin Whitespace /\ d[Len(d)] \notin Whitespace
    /\ \A k \in DOMAIN zmqOut : zmqOut[k].type = "serial"
    /\ \A k \in DOMAIN mcOut : mcOut[k].type = "serial"
    /\ IF ZmqOn
       THEN /\ Data(zmqOut) \in {Data(lines), AllButLast(Data(lines))}
            /\ mpc \in {"mcsend", "read", "rewait", "reopen"} => Len(zmqOut) = Len(lines)
       ELSE zmqOut = <<>>
    /\ IF MulticastOn
       THEN /\ Data(mcOut) \in {Kept(Data(lines), mcErrs),
                                 AllButLast(Kept(Data(lines), mcErrs))}
            /\ BetweenLines => Data(mcOut) = Kept(Data(lines), mcErrs)
            /\ ZmqOn => mcOut \in {Kept(zmqOut, mcErrs), AllButLast(Kept(zmqOut, mcErrs))}
       ELSE mcOut = <<>> /\ mcErrs = {}
    /\ mpc = "mcsend" /\ ZmqOn => zmqOut[Len(zmqOut)] = message[1]

C15_RelayExceptFailedSends ==
    [][/\ C15_State'
       /\ zmqOut' # zmqOut => (mpc = "zmqsend" /\ zmqOut' = Append(zmqOut, message[1]))
       /\ mcOut' # mcOut => (mpc = "mcsend" /\ mcOut' = Append(mcOut, message[1]))
       /\ lines' # lines => (mpc = "read" /\ mpc' = "zmqsend"
                              /\ Len(lines') = Len(lines) + 1
                              /\ message'[1].data = lines'[Len(lines')].data
                              /\ message'[1].timestamp = clock)
       /\ UNCHANGED lines => (message' = message \/ mpc = "notrun")]_vars

\* two different lines relayed on both sinks, in read order
C15_Witness ==
    /\ mpc = "read" /\ ZmqOn /\ MulticastOn
    /\ Data(lines) = << <<"a">>, <<"b", "SP", "b">> >>
    /\ Data(zmqOut) = Data(lines) /\ mcOut = zmqOut
    /\ zmqOut[1].timestamp < zmqOut[2].timestamp

C16_State ==
    /\ mpc \in {"read", "zmqsend", "mcsend"} => (ser >= 1 /\ ser \notin failed /\ serOpen)
    /\ mpc \in {"rewait", "reopen"} => ser \in failed
    /\ \A k \in DOMAIN lines : \A j \in DOMAIN lines :
          k <= j => lines[k].ser <= lines[j].ser
    /\ ret = <<0>> =>
          /\ mpc = "returned" /\ ~serOpen
          /\ zmq_socket # "open" /\ multicast_socket # "open"

\* C16: after readline raised SerialException nothing is read or relayed on
\* the failed handle: the monitor polls the device path with a timeout of 30
\* seconds, and a line is relayed again only after the path was found and
\* the port reopened, on the new handle.  If a poll finds the path absent
\* after more than 30 seconds, or the reopen raises SerialException, the
\* loop is left and main() closes what is open and returns 0.
C16_Reconnect ==
    [][/\ C16_State'
       /\ failed' # failed =>
            (mpc = "read" /\ mpc' = "rewait" /\ elapsed' = 0 /\ failed' = failed \cup {ser})
       /\ mpc \in {"rewait", "reopen"} => UNCHANGED <<lines, message, zmqOut, mcOut>>
       /\ (mpc = "rewait" /\ mpc' # "rewait") =>
            IF devPresent
            THEN mpc' = "reopen"
            ELSE mpc' = "cleanup" /\ elapsed > RECONNECT_TIMEOUT
       /\ (mpc = "rewait" /\ mpc' = "rewait" /\ elapsed' # elapsed) =>
            (~devPresent /\ elapsed <= RECONNECT_TIMEOUT)
       /\ (mpc = "reopen" /\ mpc' # "reopen") =>
            \/ mpc' = "read" /\ ser' = ser + 1 /\ serOpen'
            \/ mpc' = "cleanup" /\ ser' = ser
       /\ (mpc = "cleanup" /\ mpc' # "cleanup") => (mpc' = "returned" /\ ret' = <<0>>)
       /\ lines' # lines => lines'[Len(lines')].ser = ser']_vars

\* a line relayed on the first handle, a failure, a wait that found the
\* path after some seconds, and a line relayed on the second handle
C16_Witness ==
    /\ mpc = "read" /\ ser = 2 /\ failed = {1} /\ ZmqOn
    /\ Len(lines) = 2 /\ lines[1].ser = 1 /\ lines[2].ser = 2
    /\ Len(zmqOut) = 2

\* the wait ran out and main() returned 0
C16_WitnessGaveUp ==
    /\ mpc = "returned" /\ ret = <<0>> /\ failed = {1} /\ ser = 1 /\ ~devPresent
    /\ Len(lines) = 1

\* C17: a multicast send that raises is logged and the loop goes on to the
\* next readline with the port and both sinks as they were: the line has
\* already gone out on ZMQ when ZMQ is enabled and set up, and the lines read
\* after it are relayed to every enabled sink.
C17_MulticastErrorIsolated ==
    [][/\ mcErrs' # mcErrs =>
            /\ mpc = "mcsend" /\ mpc' = "read"
            /\ mcErrs' = mcErrs \cup {Len(lines)}
            /\ ZmqOn => (Len(zmqOut) = Len(lines) /\ zmqOut[Len(zmqOut)] = message[1])
            /\ UNCHANGED <<ser, serOpen, zmq_socket, multicast_socket, ret,
                           zmqOut, mcOut, lines>>
       /\ (mcErrs # {} /\ mpc' \in {"zmqsend", "mcsend"}) =>
            /\ multicast_socket' = "open"
            /\ argZmq => zmq_socket' = "open"
       /\ (mcErrs # {} /\ mpc = "mcsend" /\ mpc' = "read" /\ mcErrs' = mcErrs) =>
            /\ mcOut' = Append(mcOut, message[1])
            /\ ZmqOn => zmqOut[Len(zmqOut)] = message[1]]_vars

\* the multicast send of the first line raised; the second line went out on
\* both sinks
C17_Witness ==
    /\ mpc = "read" /\ ZmqOn /\ MulticastOn /\ mcErrs = {1}
    /\ Len(lines) = 2
    /\ Data(zmqOut) = Data(lines)
    /\ mcOut = <<zmqOut[2]>>

===========================================================================
